---- MODULE Spec2Model ----
(***************************************************************************)
(* The incremental build command of coltrane                               *)
(* (src/coltrane/management/commands/build.py): Command.handle, the        *)
(* per-file worker Command._output_markdown_file, the thread pool it runs  *)
(* on and the collectstatic future of coltrane.utils.threadpool.           *)
(*                                                                         *)
(* coltrane.manifest (Manifest, ManifestItem) is not part of the sources   *)
(* at hand: its operations are modelled from the written specification     *)
(* (sections 3 and 4.2).                                                   *)
(***************************************************************************)
EXTENDS Integers, Sequences, FiniteSets, TLC

\* ------------------------------------------------------------- bounds
MaxFiles == 2      \* number of content files get_content_paths() yields
MaxBuilds == 2     \* number of times handle() is run on the same Command
MaxStamp == 2      \* distinct modification times / content hashes of a file
MaxCpu == 4        \* largest cpu_count() the machine may report

\* ---------------------------------------------------------- constants
\* Command.threads_count, the class attribute
DefaultThreads == 2

Paths == 1 .. MaxFiles
Stamps == 1 .. MaxStamp

\* A ManifestItem: the fingerprint of one file.  NoItem is Python's None.
NoItem == [mtime |-> 0, md5 |-> 0]
Items == [mtime : Stamps, md5 : Stamps]

\* The --threads option: absent, not a number, or the text of an integer.
ThreadOptions == {"none", "bad"} \cup {"0", "1", "2"}

\* int(options["threads"]): -1 stands for ValueError.
ParseInt(s) ==
    CASE s = "0" -> 0
      [] s = "1" -> 1
      [] s = "2" -> 2
      [] OTHER -> -1

VARIABLES
    pc,                 \* position of Command.handle
    builds,             \* number of handle() calls started
    options,            \* the options of the running handle() call
    files,              \* the source tree: path -> current fingerprint
    stored,             \* output.json on disk: path -> ManifestItem or NoItem
    manifest,           \* self.manifest: [loaded, items, is_dirty]
    static_changed,     \* manifest.static_files_manifest_changed
    collectstatic,      \* the collectstatic future: "none", "running", "done"
    is_force,           \* self.is_force
    threads_count,      \* self.threads_count
    counts,             \* self.output_result_counts
    todo,               \* what get_content_paths() has still to yield
    task,               \* path -> the frame of its _output_markdown_file call
    errors,             \* handle's local list errors (the failing paths)
    error_message,      \* handle's local error_message (a path, 0 if unbound)
    summary,            \* the summary line was printed by this build
    failed_lines,       \* the spinner.fail lines printed by this build
    rendered,           \* paths whose render_html() returned in this build
    written,            \* paths whose output file was written in this build
    outcome,            \* path -> the counter its call incremented
    fault,              \* path -> the step of its call that raised
    writes,             \* manifest.write_data() calls of this build
    fatal,              \* what aborted the latest handle() call, or "none"
    changed,            \* a source file changed since the last build ended
    prev_clean,         \* the previous build completed without errors
    cpus                \* cpu_count() while the thread count is resolved
                        \* (0: it raises; -1 at any other time)

vars == <<pc, builds, options, files, stored, manifest, static_changed,
          collectstatic, is_force, threads_count, counts, todo, task, errors,
          error_message, summary, failed_lines, rendered, written, outcome,
          fault, writes, fatal, changed, prev_clean, cpus>>

\* What a build leaves alone unless it says otherwise.
env == <<builds, options, files, stored, changed, prev_clean, cpus>>
out == <<summary, failed_lines, writes>>
ghost == <<rendered, written, outcome, fault>>

ZeroCounts == [create_count |-> 0, update_count |-> 0, skip_count |-> 0]
NoManifest == [loaded |-> FALSE, items |-> [p \in Paths |-> NoItem],
               is_dirty |-> FALSE]
IdleTask == [pc |-> "none", item |-> NoItem, existing_item |-> NoItem,
             branch |-> "none", count |-> 0]

Init ==
    /\ pc = "idle"
    /\ builds = 0
    /\ options = [force |-> FALSE, threads |-> "none"]
    /\ files = [p \in Paths |-> [mtime |-> 1, md5 |-> 1]]
    /\ stored \in [Paths -> Items \cup {NoItem}]
    /\ manifest = NoManifest
    /\ static_changed = FALSE
    /\ collectstatic = "none"
    /\ is_force = FALSE
    /\ threads_count = DefaultThreads
    /\ counts = ZeroCounts
    /\ todo = <<>>
    /\ task = [p \in Paths |-> IdleTask]
    /\ errors = <<>>
    /\ error_message = 0
    /\ summary = FALSE
    /\ failed_lines = <<>>
    /\ rendered = {}
    /\ written = {}
    /\ outcome = [p \in Paths |-> "none"]
    /\ fault = [p \in Paths |-> "none"]
    /\ writes = 0
    /\ fatal = "none"
    /\ changed = FALSE
    /\ prev_clean = FALSE
    /\ cpus = -1

\* ------------------------------------------- coltrane.manifest (from the
\* written specification, sections 3 and 4.2; its source is not at hand)

\* ManifestItem.create(path): the fingerprint of the file as it is now.
ManifestItemCreate(p) == files[p]

\* Manifest(manifest_file=...): an absent file gives an empty manifest.
ManifestLoad(disk) == [loaded |-> TRUE, items |-> disk, is_dirty |-> FALSE]

\* Manifest.get(path): the record, or None.
ManifestGet(m, p) == m.items[p]

\* Manifest.add(path): upsert of a fresh fingerprint; the manifest is dirty.
ManifestAdd(m, p) ==
    [m EXCEPT !.items[p] = ManifestItemCreate(p), !.is_dirty = TRUE]

\* Manifest.write_data(): what is on disk afterwards.
ManifestWriteData(m) == m.items

\* ------------------------------------------------ Command.handle, set-up

\* (variant: the counters of the previous build are kept)
KeepCounts(c) == c

\* self.output_result_counts = {"create_count": 0, "update_count": 0,
\* "skip_count": 0}
ResetCounts(c) == ZeroCounts

\* handle() entry: the per-build state is reset, the output directory
\* option is applied and collectstatic is started on its own thread.
HandleStart ==
    /\ pc = "idle"
    /\ builds < MaxBuilds
    /\ builds' = builds + 1
    /\ \E f \in BOOLEAN, t \in ThreadOptions :
          options' = [force |-> f, threads |-> t]
    /\ is_force' = FALSE
    /\ manifest' = NoManifest
    /\ counts' = ResetCounts(counts)
    /\ collectstatic' = "running"
    /\ pc' = "load"
    /\ fatal' = "none"
    /\ todo' = <<>>
    /\ task' = [p \in Paths |-> IdleTask]
    /\ errors' = <<>>
    /\ summary' = FALSE
    /\ failed_lines' = <<>>
    /\ rendered' = {}
    /\ written' = {}
    /\ outcome' = [p \in Paths |-> "none"]
    /\ fault' = [p \in Paths |-> "none"]
    /\ writes' = 0
    /\ error_message' = 0
    /\ UNCHANGED <<files, stored, static_changed, threads_count, changed,
                   prev_clean, cpus>>

\* The exception of a build-fatal step leaves handle().
Abort(reason) ==
    /\ pc' = "idle"
    /\ fatal' = reason
    /\ prev_clean' = FALSE
    /\ changed' = FALSE

\* Manifest.static_files_manifest_changed: what the manifest may report
\* once collectstatic has run (from the written specification).
StaticFilesManifestChanged == BOOLEAN

\* _call_collectstatic on its thread: the command runs to its end; whether
\* the static files manifest changed is known from then on.
CollectStaticRun ==
    /\ collectstatic = "running"
    /\ collectstatic' = "done"
    /\ static_changed' \in StaticFilesManifestChanged
    /\ UNCHANGED <<pc, env, manifest, is_force, threads_count, counts, todo,
                   task, errors, error_message, out, ghost, fatal>>

\* (variant: the --force option is not read)
ForceOptionIgnored(opts) == FALSE

\* self.is_force after the --force option is read.
ForceOption(opts) == opts.force = TRUE

\* output_directory.mkdir, self._load_manifest(), the --force option.
LoadManifest ==
    /\ pc = "load"
    /\ \E ok \in {"ok", "mkdir", "load"} :
          IF ok = "ok"
          THEN /\ manifest' = ManifestLoad(stored)
               /\ is_force' = ForceOption(options)
               /\ pc' = "await"
               /\ UNCHANGED <<fatal, changed, prev_clean>>
          ELSE /\ Abort(ok)
               /\ UNCHANGED <<manifest, is_force>>
    /\ UNCHANGED <<builds, options, files, stored, static_changed,
                   collectstatic, threads_count, counts, todo, task, errors,
                   error_message, out, ghost, cpus>>

\* (variant: a change of the static files does not force the build)
EscalateNever(force, static) == force

\* self.is_force after the static files check.
Escalate(force, static) == force \/ static

\* (variant: the future is not waited for)
ResultNotAwaited(future) == TRUE

\* collectstatic_future.result() returns once _call_collectstatic has.
ResultReady(future) == future = "done"

\* collectstatic_future.result(), then the escalation to a forced build.
AwaitCollectStatic ==
    /\ pc = "await"
    /\ ResultReady(collectstatic)
    /\ is_force' = Escalate(is_force, static_changed)
    /\ pc' = "threads"
    /\ UNCHANGED <<env, manifest, static_changed, collectstatic,
                   threads_count, counts, todo, task, errors, error_message,
                   out, ghost, fatal>>

\* self.threads_count after the --threads option is read; cpu = 0 stands
\* for cpu_count() raising.
ThreadsCount(opt, cpu, old) ==
    IF opt # "none"
    THEN IF ParseInt(opt) = -1 THEN old ELSE ParseInt(opt)
    ELSE IF cpu = 0 THEN old ELSE (cpu \div 2) - 1

ResolveThreads ==
    /\ pc = "threads"
    /\ \E cpu \in 0 .. MaxCpu :
          /\ cpus' = cpu
          /\ threads_count' = ThreadsCount(options.threads, cpu, threads_count)
    /\ pc' = "pool"
    /\ UNCHANGED <<builds, options, files, stored, changed, prev_clean,
                   manifest, static_changed, collectstatic, is_force,
                   counts, todo, task, errors, error_message, out, ghost,
                   fatal>>

\* get_content_paths(): the content files, in the order they are yielded.
ContentPaths == [i \in 1 .. MaxFiles |-> i]

\* ThreadPoolExecutor(max_workers=n) raises ValueError unless n > 0.
PoolCreated(n) == n > 0

CreatePool ==
    /\ pc = "pool"
    /\ IF PoolCreated(threads_count)
       THEN /\ todo' = ContentPaths
            /\ pc' = "loop"
            /\ UNCHANGED <<fatal, changed, prev_clean>>
       ELSE /\ Abort("pool")
            /\ UNCHANGED todo
    /\ cpus' = -1
    /\ UNCHANGED <<builds, options, files, stored, manifest, static_changed,
                   collectstatic, is_force, threads_count, counts, task,
                   errors, error_message, out, ghost>>

\* ------------------------------------- Command._output_markdown_file

\* (variant: the md5 is compared before the mtime)
ClassifyHashFirst(item, existing_item, force) ==
    IF existing_item # NoItem /\ ~force
    THEN IF item.md5 = existing_item.md5
         THEN IF item.mtime = existing_item.mtime THEN "mtime_skip"
              ELSE "hash_skip"
         ELSE "render"
    ELSE "render"

\* (variant: no md5 comparison, a newer mtime always renders)
ClassifyMtimeOnly(item, existing_item, force) ==
    IF existing_item # NoItem /\ ~force
    THEN IF item.mtime = existing_item.mtime THEN "mtime_skip" ELSE "render"
    ELSE "render"

\* The branch taken for a file: "mtime_skip" (same mtime), "hash_skip"
\* (same md5: the record is refreshed) or "render".
Classify(item, existing_item, force) ==
    IF existing_item # NoItem /\ ~force
    THEN IF item.mtime = existing_item.mtime THEN "mtime_skip"
         ELSE IF item.md5 = existing_item.md5 THEN "hash_skip"
         ELSE "render"
    ELSE "render"

\* (variant: create_count and update_count are exchanged)
CounterOfSwapped(branch, existing_item) ==
    IF branch \in {"mtime_skip", "hash_skip"} THEN "skip_count"
    ELSE IF existing_item # NoItem THEN "create_count"
    ELSE "update_count"

\* The counter of output_result_counts the call increments.
CounterOf(branch, existing_item) ==
    IF branch \in {"mtime_skip", "hash_skip"} THEN "skip_count"
    ELSE IF existing_item # NoItem THEN "update_count"
    ELSE "create_count"

OutcomeOf(counter) ==
    CASE counter = "skip_count" -> "skip"
      [] counter = "update_count" -> "update"
      [] counter = "create_count" -> "create"

\* Calls a worker thread of the pool is running.
Running(t) == {p \in Paths : t[p].pc \notin {"none", "queued", "done",
                                              "failed", "collected"}}

Failed(p, step) ==
    /\ task' = [task EXCEPT ![p] = [IdleTask EXCEPT !.pc = "failed"]]
    /\ fault' = [fault EXCEPT ![p] = step]

\* A free worker takes the call: ManifestItem.create, manifest.get and
\* the comparisons.
TaskClassify(p) ==
    /\ task[p].pc = "queued"
    /\ Cardinality(Running(task)) < threads_count
    /\ \E ok \in BOOLEAN :
          IF ok
          THEN LET item == ManifestItemCreate(p)
                   existing_item == ManifestGet(manifest, p)
                   branch == Classify(item, existing_item, is_force)
               IN /\ task' = [task EXCEPT ![p] =
                        [pc |-> IF branch = "hash_skip" THEN "refresh"
                                ELSE "load_count",
                         item |-> item, existing_item |-> existing_item,
                         branch |-> branch, count |-> 0]]
                  /\ UNCHANGED fault
          ELSE Failed(p, "fingerprint")
    /\ UNCHANGED <<pc, env, manifest, static_changed, collectstatic,
                   is_force, threads_count, counts, todo, errors,
                   error_message, out, rendered, written, outcome, fatal>>

\* Same md5, newer mtime: self.manifest.add(markdown_file).
TaskRefresh(p) ==
    /\ task[p].pc = "refresh"
    /\ manifest' = ManifestAdd(manifest, p)
    /\ task' = [task EXCEPT ![p].pc = "load_count"]
    /\ UNCHANGED <<pc, env, static_changed, collectstatic, is_force,
                   threads_count, counts, todo, errors, error_message, out,
                   ghost, fatal>>

\* counter += 1, first half: the attribute is read.
TaskLoadCount(p) ==
    /\ task[p].pc = "load_count"
    /\ task' = [task EXCEPT
          ![p].count = counts[CounterOf(task[p].branch, task[p].existing_item)],
          ![p].pc = "store_count"]
    /\ UNCHANGED <<pc, env, manifest, static_changed, collectstatic,
                   is_force, threads_count, counts, todo, errors,
                   error_message, out, ghost, fatal>>

\* counter += 1, second half: the sum is written back.  A skipped file
\* is done; any other goes on to render.
TaskStoreCount(p) ==
    /\ task[p].pc = "store_count"
    /\ LET counter == CounterOf(task[p].branch, task[p].existing_item)
       IN /\ counts' = [counts EXCEPT ![counter] = task[p].count + 1]
          /\ outcome' = [outcome EXCEPT ![p] = OutcomeOf(counter)]
          /\ task' = [task EXCEPT ![p] =
                IF counter = "skip_count"
                THEN [IdleTask EXCEPT !.pc = "done"]
                ELSE [task[p] EXCEPT !.pc = "render", !.count = 0]]
    /\ UNCHANGED <<pc, env, manifest, static_changed, collectstatic,
                   is_force, threads_count, todo, errors, error_message, out,
                   rendered, written, fault, fatal>>

\* rendered_html = item.render_html()
TaskRender(p) ==
    /\ task[p].pc = "render"
    /\ \E ok \in BOOLEAN :
          IF ok
          THEN /\ rendered' = rendered \cup {p}
               /\ task' = [task EXCEPT ![p].pc = "write"]
               /\ UNCHANGED fault
          ELSE /\ Failed(p, "render")
               /\ UNCHANGED rendered
    /\ UNCHANGED <<pc, env, manifest, static_changed, collectstatic,
                   is_force, threads_count, counts, todo, errors,
                   error_message, out, written, outcome, fatal>>

\* item.generated_file_path.write_text(rendered_html)
TaskWrite(p) ==
    /\ task[p].pc = "write"
    /\ \E ok \in BOOLEAN :
          IF ok
          THEN /\ written' = written \cup {p}
               /\ task' = [task EXCEPT ![p].pc = "add"]
               /\ UNCHANGED fault
          ELSE /\ Failed(p, "write")
               /\ UNCHANGED written
    /\ UNCHANGED <<pc, env, manifest, static_changed, collectstatic,
                   is_force, threads_count, counts, todo, errors,
                   error_message, out, rendered, outcome, fatal>>

\* self.manifest.add(markdown_file) of a rendered file.
TaskAdd(p) ==
    /\ task[p].pc = "add"
    /\ manifest' = ManifestAdd(manifest, p)
    /\ task' = [task EXCEPT ![p] = [IdleTask EXCEPT !.pc = "done"]]
    /\ UNCHANGED <<pc, env, static_changed, collectstatic, is_force,
                   threads_count, counts, todo, errors, error_message, out,
                   ghost, fatal>>

\* ------------------------------------------- Command.handle, the pool

\* (variant: every path is submitted at once, the futures are waited for
\* afterwards)
CanSubmitAll(t) == TRUE

\* future.exception() right after executor.submit: the loop goes on to
\* the next path only when the call it submitted has ended.
CanSubmit(t) == \A p \in Paths : t[p].pc \in {"none", "collected"}

\* executor.submit(self._output_markdown_file, path)
Submit ==
    /\ pc = "loop"
    /\ todo # <<>>
    /\ CanSubmit(task)
    /\ task' = [task EXCEPT ![Head(todo)].pc = "queued"]
    /\ todo' = Tail(todo)
    /\ UNCHANGED <<pc, env, manifest, static_changed, collectstatic,
                   is_force, threads_count, counts, errors, error_message,
                   out, ghost, fatal>>

\* (variant: future.result(), which raises the exception of the call)
ResultRaises(status) == status = "failed"

\* Whether waiting for the call raises in handle(): future.exception()
\* returns the exception of the call, it does not raise it.
WaitRaises(status) == FALSE

\* error = future.exception() returns: a raised exception is appended to
\* errors as a message naming the path.
Collect(p) ==
    /\ pc = "loop"
    /\ task[p].pc \in {"done", "failed"}
    /\ IF WaitRaises(task[p].pc)
       THEN /\ Abort("task")
            /\ UNCHANGED <<error_message, errors>>
       ELSE /\ IF task[p].pc = "failed"
               THEN /\ error_message' = p
                    /\ errors' = Append(errors, p)
               ELSE UNCHANGED <<error_message, errors>>
            /\ UNCHANGED <<pc, fatal, changed, prev_clean>>
    /\ task' = [task EXCEPT ![p].pc = "collected"]
    /\ UNCHANGED <<builds, options, files, stored, manifest, static_changed,
                   collectstatic, is_force, threads_count, counts, todo, out,
                   ghost, cpus>>

\* The with block ends: the pool is shut down, its workers joined.
ClosePool ==
    /\ pc = "loop"
    /\ todo = <<>>
    /\ \A p \in Paths : task[p].pc = "collected"
    /\ pc' = "summary"
    /\ UNCHANGED <<env, manifest, static_changed, collectstatic, is_force,
                   threads_count, counts, todo, task, errors, error_message,
                   out, ghost, fatal>>

\* ------------------------------------------ Command.handle, the report

\* What the loop over errors prints: spinner.fail(error_message).
FailLines(errs, last) == [i \in 1 .. Len(errs) |-> last]

\* (variant: the summary line is held back until the manifest is written)
ResultMsgHeldBack == FALSE

\* spinner.succeed(result_msg) right after the pool, before the manifest
\* is written: the summary line is on the screen from here on.
ResultMsgShown == TRUE

\* spinner.succeed(result_msg), then one spinner.fail per error.
Summary ==
    /\ pc = "summary"
    /\ summary' = ResultMsgShown
    /\ failed_lines' = FailLines(errors, error_message)
    /\ pc' = "persist"
    /\ UNCHANGED <<env, manifest, static_changed, collectstatic, is_force,
                   threads_count, counts, todo, task, errors, error_message,
                   writes, ghost, fatal>>

\* (variant: the manifest is never written)
NeverPersist(m) == FALSE

\* (variant: the manifest is written whether dirty or not)
AlwaysPersist(m) == TRUE

\* if self.manifest.is_dirty
MustPersist(m) == m.is_dirty

\* self.manifest.write_data() when the manifest is dirty.
Persist ==
    /\ pc = "persist"
    /\ IF MustPersist(manifest)
       THEN \E ok \in BOOLEAN :
               IF ok
               THEN /\ stored' = ManifestWriteData(manifest)
                    /\ writes' = writes + 1
                    /\ pc' = "finish"
                    /\ UNCHANGED <<fatal, changed, prev_clean>>
               ELSE /\ Abort("write_data")
                    /\ UNCHANGED <<stored, writes>>
       ELSE /\ pc' = "finish"
            /\ UNCHANGED <<stored, writes, fatal, changed, prev_clean>>
    /\ UNCHANGED <<builds, options, files, manifest, static_changed,
                   collectstatic, is_force, threads_count, counts, todo,
                   task, errors, error_message, summary, failed_lines,
                   ghost, cpus>>

\* The elapsed time is printed and handle() returns.
Finish ==
    /\ pc = "finish"
    /\ pc' = "idle"
    /\ prev_clean' = (errors = <<>>)
    /\ changed' = FALSE
    /\ UNCHANGED <<builds, options, files, stored, manifest, static_changed,
                   collectstatic, is_force, threads_count, counts, todo,
                   task, errors, error_message, out, ghost, fatal, cpus>>

\* ------------------------------------------------------ the source tree

\* Between two builds a content file is edited, touched or restored.
Touch(p) ==
    /\ pc = "idle"
    /\ 0 < builds
    /\ builds < MaxBuilds
    /\ \E item \in Items \ {files[p]} : files' = [files EXCEPT ![p] = item]
    /\ changed' = TRUE
    /\ UNCHANGED <<pc, builds, options, stored, prev_clean, cpus, manifest,
                   static_changed, collectstatic, is_force, threads_count,
                   counts, todo, task, errors, error_message, out, ghost,
                   fatal>>

Worker(p) ==
    \/ TaskClassify(p)
    \/ TaskRefresh(p)
    \/ TaskLoadCount(p)
    \/ TaskStoreCount(p)
    \/ TaskRender(p)
    \/ TaskWrite(p)
    \/ TaskAdd(p)

Next ==
    \/ HandleStart
    \/ CollectStaticRun
    \/ LoadManifest
    \/ AwaitCollectStatic
    \/ ResolveThreads
    \/ CreatePool
    \/ Submit
    \/ \E p \in Paths : Worker(p)
    \/ \E p \in Paths : Collect(p)
    \/ ClosePool
    \/ Summary
    \/ Persist
    \/ Finish
    \/ \E p \in Paths : Touch(p)

Spec == Init /\ [][Next]_vars

\* ================================================================ claims

\* handle() is between the creation of the pool and the manifest write:
\* stored still is the manifest as it was loaded.
InBuild == pc \in {"loop", "summary", "persist"}

\* The call for p has ended (returned or raised).
Ended(p) == task[p].pc \in {"done", "failed", "collected"}

\* The call for p has reached item.render_html() and left it.
RenderTried(p) == p \in rendered \/ fault[p] = "render"

\* Every file is handled as in a forced build: counted create (no record)
\* or update (a record), never skip, and rendered and written.
AllForced ==
    /\ counts.skip_count = 0
    /\ \A p \in Paths :
          /\ outcome[p] \in
                {"none", IF stored[p] = NoItem THEN "create" ELSE "update"}
          /\ (Ended(p) /\ fault[p] # "fingerprint") =>
                (outcome[p] # "none" /\ RenderTried(p))
          /\ (Ended(p) /\ fault[p] = "none") =>
                (p \in rendered /\ p \in written)

\* C1 Force-all: in a build run with --force every processed file is
\* counted create (no manifest record) or update (a record exists) and is
\* rendered; none is counted skip, whatever its stored mtime and md5.
C1_ForceAll == (InBuild /\ options.force) => AllForced

\* A forced build has rendered, as an update, a file whose fingerprint
\* equals its record.
C1_Witness ==
    /\ pc = "summary"
    /\ options.force
    /\ \E p \in Paths :
          stored[p] = files[p] /\ outcome[p] = "update" /\ p \in rendered

\* C2 Static-asset escalation: without --force, when the manifest reports
\* changed static files after collectstatic has finished, every file of
\* the build is counted create or update and rendered, none is skipped.
C2_StaticEscalation ==
    (InBuild /\ ~options.force /\ static_changed) => AllForced

\* An escalated build has rendered a file whose fingerprint equals its
\* record.
C2_Witness ==
    /\ pc = "summary"
    /\ ~options.force
    /\ static_changed
    /\ \E p \in Paths :
          stored[p] = files[p] /\ outcome[p] = "update" /\ p \in rendered

\* The record of p has the mtime the file has now.
SameMtime(p) == stored[p] # NoItem /\ stored[p].mtime = files[p].mtime

\* The record of p has the md5 the file has now.
SameMd5(p) == stored[p] # NoItem /\ stored[p].md5 = files[p].md5

\* C3 mtime fast path: in a build that is not forced, a file whose mtime
\* equals the mtime of its record is counted skip, is not rendered, its
\* output is not written and it leaves the manifest alone (its record is
\* the loaded one; the manifest is dirty only through another file), even
\* if its md5 differs from the stored one.
C3_MtimeFastPath ==
    (InBuild /\ ~is_force) =>
        /\ \A p \in Paths : SameMtime(p) =>
              /\ outcome[p] \in {"none", "skip"}
              /\ (Ended(p) /\ fault[p] = "none") => outcome[p] = "skip"
              /\ p \notin rendered
              /\ p \notin written
              /\ manifest.items[p] = stored[p]
        /\ manifest.is_dirty => \E q \in Paths : ~SameMtime(q)

\* A file with the stored mtime and another md5 was skipped.
C3_Witness ==
    /\ pc = "summary"
    /\ ~is_force
    /\ \E p \in Paths :
          SameMtime(p) /\ ~SameMd5(p) /\ outcome[p] = "skip"

\* C4 Hash fallback: in a build that is not forced, a file whose mtime
\* differs from its record and whose md5 equals the stored md5 is counted
\* skip and is not rendered, and its record is refreshed through add: the
\* stored mtime becomes the current one and the manifest is dirty.
C4_HashFallback ==
    (InBuild /\ ~is_force) =>
        \A p \in Paths : (~SameMtime(p) /\ SameMd5(p)) =>
            /\ outcome[p] \in {"none", "skip"}
            /\ p \notin rendered
            /\ p \notin written
            /\ outcome[p] = "skip" =>
                  /\ manifest.items[p] = files[p]
                  /\ manifest.is_dirty
            /\ (Ended(p) /\ fault[p] = "none") => outcome[p] = "skip"

\* A file with a newer mtime and the stored md5 was skipped and its record
\* now holds the new mtime.
C4_Witness ==
    /\ pc = "summary"
    /\ ~is_force
    /\ \E p \in Paths :
          /\ ~SameMtime(p) /\ SameMd5(p)
          /\ outcome[p] = "skip"
          /\ manifest.items[p].mtime = files[p].mtime
          /\ manifest.items[p].mtime # stored[p].mtime

\* C5 In a build that is not forced a file without a record is counted
\* create and a file whose record differs in mtime and in md5 is counted
\* update; when its call ends without an exception the file was rendered,
\* its output written and its record set to the current fingerprint.
C5_CreateUpdate ==
    (InBuild /\ ~is_force) =>
        \A p \in Paths :
            (stored[p] = NoItem \/ (~SameMtime(p) /\ ~SameMd5(p))) =>
               /\ outcome[p] \in
                    {"none", IF stored[p] = NoItem THEN "create" ELSE "update"}
               /\ (Ended(p) /\ fault[p] # "fingerprint") =>
                     (outcome[p] # "none" /\ RenderTried(p))
               /\ (Ended(p) /\ fault[p] = "none") =>
                     /\ p \in rendered
                     /\ p \in written
                     /\ manifest.items[p] = files[p]
                     /\ manifest.is_dirty

\* One build created a file without a record and updated a file whose
\* record differed in mtime and md5.
C5_Witness ==
    /\ pc = "summary"
    /\ ~is_force
    /\ \E p, q \in Paths :
          /\ stored[p] = NoItem /\ outcome[p] = "create"
          /\ manifest.items[p] = files[p]
          /\ stored[q] # NoItem /\ ~SameMtime(q) /\ ~SameMd5(q)
          /\ outcome[q] = "update" /\ q \in written
          /\ manifest.items[q] = files[q]

\* C6 Idempotence: when a build that completed without errors is followed
\* by a build with no source change, no static file change and no --force,
\* the second build counts no create and no update, every file whose call
\* ends is skipped, and the manifest is not dirty at its end.
C6_Idempotence ==
    (/\ pc = "finish"
     /\ prev_clean
     /\ ~changed
     /\ ~options.force
     /\ ~static_changed) =>
        /\ counts.create_count = 0
        /\ counts.update_count = 0
        /\ ~manifest.is_dirty
        /\ writes = 0
        /\ \A p \in Paths : fault[p] = "none" => outcome[p] = "skip"

\* A second build over an unchanged tree has skipped every file.
C6_Witness ==
    /\ pc = "finish"
    /\ builds = 2
    /\ prev_clean
    /\ ~changed
    /\ ~options.force
    /\ ~static_changed
    /\ counts.skip_count = MaxFiles
    /\ \E p \in Paths : stored[p] # NoItem

Total == counts.create_count + counts.update_count + counts.skip_count

\* C7 Error isolation (as claimed): if exactly one of the N files fails
\* during render, the counters add up to N-1 and exactly one error is
\* collected, naming that file.
C7_ErrorIsolation ==
    \A p \in Paths :
        (/\ pc = "summary"
         /\ fault[p] = "render"
         /\ \A q \in Paths \ {p} : fault[q] = "none") =>
            /\ Total = MaxFiles - 1
            /\ errors = <<p>>

\* What a build over the loaded manifest (stored) yields for p when the
\* files are taken one after the other; fault[p] is the step of p that
\* raises.  The thread count does not occur in it.
BranchOf(p) == Classify(files[p], stored[p], is_force)
CountedAs(p) ==
    IF fault[p] = "fingerprint" THEN "none"
    ELSE OutcomeOf(CounterOf(BranchOf(p), stored[p]))
ItemAfter(p) ==
    IF fault[p] = "none" /\ BranchOf(p) # "mtime_skip" THEN files[p]
    ELSE stored[p]
Tally(o) == Cardinality({p \in Paths : CountedAs(p) = o})
Occurrences(seq, x) == Cardinality({i \in 1 .. Len(seq) : seq[i] = x})

\* A step of the pool or of handle() inside its with block.
LoopStep ==
    \/ Submit
    \/ \E p \in Paths : Worker(p)
    \/ \E p \in Paths : Collect(p)
    \/ ClosePool

\* C8 No failure of a file (fingerprint, render or output write) crosses
\* the pool boundary: it never aborts the build; once the pool is closed
\* every failing file has exactly one collected error and every other file
\* has its normal outcome; and the loop over the files can always go on
\* until the pool is closed, after which the summary and the manifest
\* write follow.
C8_FailuresCollected ==
    /\ (\E p \in Paths : fault[p] # "none") => fatal \in {"none", "write_data"}
    /\ pc \in {"summary", "persist"} =>
          \A p \in Paths :
             /\ Occurrences(errors, p) = IF fault[p] = "none" THEN 0 ELSE 1
             /\ fault[p] = "none" =>
                   /\ outcome[p] = CountedAs(p)
                   /\ (p \in rendered) = (outcome[p] # "skip")
                   /\ (p \in written) = (outcome[p] # "skip")
                   /\ manifest.items[p] = ItemAfter(p)
    /\ pc = "loop" => ENABLED LoopStep

\* A build in which the first file failed has processed the second file
\* and reached the manifest write.
C8_Witness ==
    /\ pc = "persist"
    /\ summary
    /\ \E p, q \in Paths :
          /\ p < q
          /\ fault[p] # "none"
          /\ fault[q] = "none"
          /\ q \in written
          /\ errors = <<p>>

\* C9 Concurrency safety: for a given source tree, loaded manifest and
\* force setting the counters and the manifest content at the end of the
\* pool are those of handling the files one after the other, whatever the
\* thread count and the interleaving of the workers.
C9_ThreadCountIndependent ==
    pc \in {"summary", "persist"} =>
        /\ counts = [create_count |-> Tally("create"),
                     update_count |-> Tally("update"),
                     skip_count |-> Tally("skip")]
        /\ manifest.items = [p \in Paths |-> ItemAfter(p)]
        /\ manifest.is_dirty =
              (\E p \in Paths : fault[p] = "none" /\ BranchOf(p) # "mtime_skip")

\* A pool of more than one thread has counted every file on one counter.
C9_Witness ==
    /\ pc = "summary"
    /\ threads_count > 1
    /\ counts.create_count = MaxFiles
    /\ manifest.is_dirty

\* C10 The manifest is written at most once per build, only by the step
\* after the summary, when every call of the pool has ended, and only if
\* the manifest is dirty; a build in which every file is skipped on its
\* mtime leaves the manifest clean and so never writes it.
C10_PersistOnce ==
    /\ writes <= 1
    /\ writes = 1 =>
          /\ manifest.is_dirty
          /\ summary
          /\ \A p \in Paths : task[p].pc = "collected"
    /\ pc \notin {"finish", "idle"} => writes = 0
    /\ (pc = "persist" /\ ~is_force /\ \A p \in Paths : SameMtime(p)) =>
          ~manifest.is_dirty

\* A dirty manifest was written once, after the pool was closed.
C10_Witness ==
    /\ pc = "finish"
    /\ writes = 1
    /\ stored = manifest.items
    /\ \E p \in Paths : outcome[p] = "create"

\* C11 (as claimed): the size of the pool handle() is about to create is
\* always a positive integer.
C11_PoolSizePositive == pc = "pool" => threads_count >= 1

\* C12 (as claimed): with a --threads value that is not a number the build
\* goes on with the thread count computed from cpu_count().
C12_InvalidThreadsDefault ==
    (pc = "pool" /\ options.threads = "bad" /\ cpus > 0) =>
        threads_count = (cpus \div 2) - 1

\* C13 (as claimed): after the summary line each collected error is
\* printed once: the lines printed are the collected errors, one per
\* failing file.
C13_EachErrorPrintedOnce == pc = "persist" => failed_lines = errors

\* C14 (as claimed): no build shows both the summary line and a
\* build-fatal error.
C14_SummaryExcludesFatal == ~(summary /\ fatal # "none")

\* C14 (amended): a build-fatal error raised before the pool has completed
\* (output directory, manifest load, pool creation) comes without the
\* summary line; a failed manifest write comes after it: a build shows
\* both exactly when the fatal error is the manifest write.
C14_FatalBeforeSummary ==
    fatal # "none" => (summary = (fatal = "write_data"))

\* The manifest write failed after the summary line was printed.
C14_Witness ==
    /\ pc = "idle"
    /\ fatal = "write_data"
    /\ summary
    /\ manifest.is_dirty
    /\ writes = 0

Counted(o) == Cardinality({p \in Paths : outcome[p] = o})

UsesManifest(p) == p \in Running(task)

\* C16 Manifest operations of different workers are serialized: no two
\* calls are at a manifest.add at the same time, and while one call is
\* between its get and its add no other call is: the record a call got is
\* the one the manifest holds until that call's own add.
C16_ManifestSerialized ==
    /\ Cardinality({p \in Paths : task[p].pc \in {"refresh", "add"}}) <= 1
    /\ \A p, q \in Paths : (UsesManifest(p) /\ UsesManifest(q)) => p = q
    /\ \A p \in Paths :
          task[p].pc \in {"refresh", "render", "write", "add"} =>
              ManifestGet(manifest, p) = task[p].existing_item

\* In a pool of two threads the second file is at its manifest.add after
\* the first file's add.
C16_Witness ==
    /\ threads_count > 1
    /\ \E p, q \in Paths :
          /\ task[p].pc = "collected"
          /\ outcome[p] = "create"
          /\ fault[p] = "none"
          /\ task[q].pc = "add"
          /\ manifest.is_dirty

\* C17 collectstatic is started before the manifest is loaded and runs
\* beside the load; handle() has its result before it reads the static
\* files signal and before any file is submitted; from the first submit on
\* is_force is the value fixed by --force and that signal, and every call
\* is classified with it.
C17_CollectStaticOrder ==
    /\ (pc = "load" \/ manifest.loaded) => collectstatic \in {"running", "done"}
    /\ pc \in {"threads", "pool", "loop", "summary", "persist", "finish"} =>
          /\ collectstatic = "done"
          /\ is_force = (options.force \/ static_changed)
    /\ \A p \in Paths :
          /\ task[p].pc # "none" => collectstatic = "done"
          /\ p \in Running(task) =>
                task[p].branch =
                    Classify(task[p].item, task[p].existing_item, is_force)

\* The manifest is loaded while collectstatic is still running.
C17_Witness ==
    /\ pc = "await"
    /\ manifest.loaded
    /\ collectstatic = "running"

\* C18 Whatever the resolved thread count, at most one submitted call has
\* not been waited for at any time, and a path is submitted only when every
\* path before it in the discovered list has ended and been collected.
C18_OneInFlight ==
    /\ Cardinality({p \in Paths : task[p].pc \notin {"none", "collected"}}) <= 1
    /\ \A p, q \in Paths :
          (p < q /\ task[q].pc # "none") => task[p].pc = "collected"
    /\ pc = "loop" =>
          \A i \in 1 .. Len(todo) : todo[i] = MaxFiles - Len(todo) + i

\* A pool of several workers with the second path in flight after the first.
C18_Witness ==
    /\ pc = "loop"
    /\ threads_count > 1
    /\ task[1].pc = "collected"
    /\ task[2].pc = "render"

\* C19 The manifest upsert of a rendered file comes after its render and
\* its output write; a file whose render or write fails keeps the record it
\* had when the manifest was loaded, and the next build without --force
\* renders it again (create or update), it does not skip it.
C19_FailedFileRetried ==
    \A p \in Paths :
       /\ task[p].pc = "add" => (p \in rendered /\ p \in written)
       /\ (InBuild /\ fault[p] \in {"render", "write"}) =>
             ManifestGet(manifest, p) = stored[p]
       /\ (pc = "finish" /\ fault[p] \in {"render", "write"}) =>
             Classify(ManifestItemCreate(p),
                      ManifestGet(ManifestLoad(stored), p), FALSE) = "render"

\* C20 Every build starts with is_force false, no manifest and the three
\* counters at zero: the counters of a build count the calls of that build
\* only, and is_force is decided by the --force and the static files signal
\* of that build, whatever an earlier build of the same command did.
C20_BuildReset ==
    /\ pc = "load" =>
          /\ ~is_force
          /\ manifest = NoManifest
          /\ counts = ZeroCounts
    /\ pc \in {"summary", "persist", "finish"} =>
          /\ counts = [create_count |-> Counted("create"),
                       update_count |-> Counted("update"),
                       skip_count   |-> Counted("skip")]
          /\ is_force = (options.force \/ static_changed)

\* A second build, after a first one that counted every file, reports its
\* own files only and is not forced.
C20_Witness ==
    /\ builds = 2
    /\ prev_clean
    /\ pc = "summary"
    /\ ~is_force
    /\ counts = [create_count |-> 0, update_count |-> 0,
                 skip_count |-> MaxFiles]

====
